---- MODULE Spec2Model ----
(***************************************************************************)
(* Model of UTILS/performance_metrics.py (LLNL/bmsl): a library of pure    *)
(* metric functions over index-aligned vectors.                            *)
(*                                                                         *)
(* Numbers.  A real input is modelled on the grid of half-integers: the    *)
(* integer h stands for the real h/2, so 3 is 1.5 and 16 is 8.0.  That is  *)
(* the coarsest grid on which np.around's ties (x.5) exist.  Results are   *)
(* exact rationals num/den in real units, or one of the non-finite floats  *)
(* (nan, inf), or the exception the call raises.                           *)
(*                                                                         *)
(* State.  The functions keep no state; the state of the model is the      *)
(* argument vectors of a caller, the NumPy build the module runs on, and   *)
(* the value each metric returned when it was called on those arguments.   *)
(***************************************************************************)
EXTENDS Integers, Sequences, FiniteSets, TLC

VARIABLES
    y_pred,         \* predictions, in halves
    y_true,         \* ground truth, in halves
    censor_flag,    \* kwargs['censor_flag'], integers
    survival_time,  \* kwargs['survival_time'], in halves
    numpy_ragged,   \* what np.array does with an inhomogeneous list
    result          \* metric name -> outcome of its call ("none": not called)

vars == <<y_pred, y_true, censor_flag, survival_time, numpy_ragged, result>>

\* Longest argument vector explored.
MaxLen == 3

(***************************************************************************)
(* Outcomes of a call.                                                     *)
(***************************************************************************)
RECURSIVE GCD(_, _)
GCD(a, b) == IF b = 0 THEN a ELSE GCD(b, a % b)

Abs(x) == IF x < 0 THEN -x ELSE x

Outcome(k, n, d, l) == [kind |-> k, num |-> n, den |-> d, items |-> l]

\* The finite float n/d (d > 0), in lowest terms.
Val(n, d) ==
    LET g == GCD(Abs(n), d)
    IN  Outcome("value", n \div g, d \div g, <<>>)

NaN == Outcome("nan", 0, 0, <<>>)
Inf == Outcome("inf", 0, 0, <<>>)
NotCalled == Outcome("none", 0, 0, <<>>)
IndexError == Outcome("IndexError", 0, 0, <<>>)
ValueError == Outcome("ValueError", 0, 0, <<>>)
\* A Python list of (class, accuracy) tuples.
ListOf(l) == Outcome("list", 0, 0, l)

\* IEEE division of non-negative floats as NumPy scalars do it: x/0 is inf,
\* 0/0 and anything with nan is nan (a RuntimeWarning, no exception).
FDiv(a, b) ==
    IF a.kind = "nan" \/ b.kind = "nan" THEN NaN
    ELSE IF a.kind = "inf" THEN (IF b.kind = "inf" THEN NaN ELSE Inf)
    ELSE IF b.kind = "inf" THEN Val(0, 1)
    ELSE IF b.num = 0 THEN (IF a.num = 0 THEN NaN ELSE Inf)
    ELSE Val(a.num * b.den, a.den * b.num)

\* np.sqrt of a non-negative float; the root of a rational is kept symbolic.
FSqrt(a) ==
    IF a.kind = "value" THEN Outcome("sqrt", a.num, a.den, <<>>) ELSE a

(***************************************************************************)
(* Array helpers.                                                          *)
(***************************************************************************)
RECURSIVE SumSeq(_)
SumSeq(s) == IF s = <<>> THEN 0 ELSE Head(s) + SumSeq(Tail(s))

\* a[m] for a boolean mask m: the elements of a where m is true, in order.
RECURSIVE BoolIndex(_, _)
BoolIndex(a, m) ==
    IF a = <<>> \/ m = <<>> THEN <<>>
    ELSE (IF Head(m) THEN <<Head(a)>> ELSE <<>>) \o BoolIndex(Tail(a), Tail(m))

\* The mask a == c.
EqMask(a, c) == [i \in 1..Len(a) |-> a[i] = c]

\* ndarray.mean() of integers given in units of 1/unit: nan on an empty array.
Mean(s, unit) ==
    IF s = <<>> THEN NaN ELSE Val(SumSeq(s), unit * Len(s))

\* (y_pred - y_true)**2, in quarters (halves squared).
SquaredError(p, t) == [i \in 1..Len(p) |-> (p[i] - t[i]) * (p[i] - t[i])]

\* np.abs(y_pred - y_true), in halves.
AbsError(p, t) == [i \in 1..Len(p) |-> Abs(p[i] - t[i])]

\* The sample variance (ddof = 1).
VarDdof1(t) ==
    IF Len(t) < 2 THEN NaN
    ELSE LET n == Len(t)
             s == SumSeq(t)
         IN  Val(SumSeq([i \in 1..n |-> (n * t[i] - s) * (n * t[i] - s)]),
                 4 * n * n * (n - 1))

\* np.var(y_true): the mean of the squared deviations from the mean
\* (ddof = 0).  With t in halves and mean s/n, (t[i] - s/n)**2 is
\* (n*t[i] - s)**2 / (4*n*n) in real units.
NpVar(t) ==
    IF t = <<>> THEN NaN
    ELSE LET n == Len(t)
             s == SumSeq(t)
         IN  Val(SumSeq([i \in 1..n |-> (n * t[i] - s) * (n * t[i] - s)]),
                 4 * n * n * n)

(***************************************************************************)
(* Regression metrics.                                                     *)
(***************************************************************************)
\* ((y_pred - y_true)**2).mean()
Mse(p, t) == Mean(SquaredError(p, t), 4)

rmse(p, t) == FSqrt(Mse(p, t))

nmse(p, t) == FDiv(Mse(p, t), NpVar(t))

(***************************************************************************)
(* Classification metrics.                                                 *)
(***************************************************************************)
\* Rounding that takes a tie up.
AroundHalfUp(h) == IF h % 2 = 0 THEN h ELSE h + 1

\* np.around: to the nearest integer, a tie (x.5) to the even neighbour.
\* In halves: an even h is an integer already; an odd h = 2q+1 lies half
\* way between q and q+1.
Around(h) ==
    IF h % 2 = 0 THEN h
    ELSE LET q == (h - 1) \div 2
         IN  IF q % 2 = 0 THEN 2 * q ELSE 2 * (q + 1)

\* ndarray.astype(int): truncation toward zero.
AsInt(h) == IF h >= 0 THEN 2 * (h \div 2) ELSE -(2 * ((-h) \div 2))

\* The number of true entries of a boolean array.
RECURSIVE CountTrue(_)
CountTrue(b) ==
    IF b = <<>> THEN 0 ELSE (IF Head(b) THEN 1 ELSE 0) + CountTrue(Tail(b))

\* The count of true entries, not divided by the length.
SumNotAverage(b) == IF b = <<>> THEN Val(0, 1) ELSE Val(CountTrue(b), 1)

\* np.average of a boolean array: its mean, nan when the array is empty.
Average(b) == IF b = <<>> THEN NaN ELSE Val(CountTrue(b), Len(b))

accuracy(p, t) ==
    Average([i \in 1..Len(p) |-> Around(p[i]) = t[i]])

\* CPython's set: an open-addressing table of PySet_MINSIZE slots that is
\* iterated in slot order.  A table of 8 slots is not resized before its
\* fifth key, so up to four distinct classes never leave it.
PySetMinSize == 8

\* hash() of a NumPy scalar equals that of the Python number: n for a small
\* non-negative integer n, 2^60 + q for q + 0.5.  Only the bits below 2^55
\* are ever read by a table of 8 slots, and there both are h \div 2.
PyHash(h) == h \div 2

\* set_add_entry: with mask 7 there is no room for linear probes, a taken
\* slot is left by i = (i*5 + 1 + perturb) & mask with perturb >>= 5.
RECURSIVE SetAddEntry(_, _, _, _)
SetAddEntry(table, key, i, perturb) ==
    IF table[i] = <<>> THEN [table EXCEPT ![i] = <<key>>]
    ELSE IF table[i] = <<key>> THEN table
    ELSE LET p == perturb \div 32
         IN  SetAddEntry(table, key, (i * 5 + 1 + p) % PySetMinSize, p)

\* set(iterable): the keys are added in the order the iterable yields them.
RECURSIVE SetUpdate(_, _)
SetUpdate(table, s) ==
    IF s = <<>> THEN table
    ELSE SetUpdate(SetAddEntry(table, Head(s), PyHash(Head(s)) % PySetMinSize,
                               PyHash(Head(s))),
                   Tail(s))

\* Iterating a set: the keys in slot order.
RECURSIVE SetIterFrom(_, _)
SetIterFrom(table, i) ==
    IF i >= PySetMinSize THEN <<>> ELSE table[i] \o SetIterFrom(table, i + 1)

\* for c in set(y_true)
PySetOrder(t) ==
    SetIterFrom(SetUpdate([i \in 0..(PySetMinSize - 1) |-> <<>>], t), 0)

accuracy_per_class(p, t) ==
    LET set_y == PySetOrder(t)
        pr == [i \in 1..Len(p) |-> AsInt(Around(p[i]))]
    IN  ListOf([k \in 1..Len(set_y) |->
                  LET c == set_y[k]
                      inds == EqMask(t, c)
                  IN  [class |-> c,
                       acc |-> accuracy(BoolIndex(pr, inds), BoolIndex(t, inds))]])

(***************************************************************************)
(* Survival metrics restricted to the uncensored samples.                  *)
(***************************************************************************)
\* ndarray.astype(np.int8) of an integer: wrapped to 8 bits, two's complement.
AsInt8(x) == ((x + 128) % 256) - 128

\* d == 1 for d = censor_flag.astype(np.int8)
EventMask(flags) == EqMask([i \in 1..Len(flags) |-> AsInt8(flags[i])], 1)

rmse_survival(p, t, flags) ==
    LET m == EventMask(flags)
    IN  FSqrt(Mean(SquaredError(BoolIndex(p, m), BoolIndex(t, m)), 4))

\* The masked squared error averaged over all samples, as in the formula
\* the source keeps commented out.
MseMaskedOverAll(p, t, flags) ==
    LET m == EventMask(flags)
    IN  Mean([i \in 1..Len(p) |-> IF m[i] THEN SquaredError(p, t)[i] ELSE 0], 4)

mse_survival(p, t, flags) ==
    LET m == EventMask(flags)
    IN  Mean(SquaredError(BoolIndex(p, m), BoolIndex(t, m)), 4)

mae_survival(p, t, flags) ==
    LET m == EventMask(flags)
    IN  Mean(AbsError(BoolIndex(p, m), BoolIndex(t, m)), 2)

(***************************************************************************)
(* c_index_ours.                                                           *)
(***************************************************************************)
\* Bits of a float32 significand (np.float32).
Float32Bits == 24

RECURSIVE Pow2(_)
Pow2(n) == IF n = 0 THEN 1 ELSE 2 * Pow2(n - 1)

\* The spacing of float32 values around a non-negative integer h.
RECURSIVE Ulp32(_)
Ulp32(h) == IF h < Pow2(Float32Bits) THEN 1 ELSE 2 * Ulp32(h \div 2)

\* ndarray.astype(np.float32): to the nearest value with a 24-bit
\* significand, a tie to the even significand.  Halving is exact in binary
\* floating point, so rounding h/2 is rounding h.
AsFloat32(h) ==
    LET u == Ulp32(h)
        q == h \div u
        r == h % u
    IN  IF 2 * r < u THEN q * u
        ELSE IF 2 * r > u THEN (q + 1) * u
        ELSE IF q % 2 = 0 THEN q * u ELSE (q + 1) * u

\* zip(a, b, c): stops at the shortest argument.
RECURSIVE Zip3(_, _, _)
Zip3(a, b, c) ==
    IF a = <<>> \/ b = <<>> \/ c = <<>> THEN <<>>
    ELSE <<[vi |-> Head(a), yi_pred |-> Head(b), yi_true |-> Head(c)]>>
         \o Zip3(Tail(a), Tail(b), Tail(c))

\* A comparison with a margin of 0.5.
LessByMoreThanAHalf(yi_pred, yj_pred) == yi_pred + 1 < yj_pred

\* yi_pred < yj_pred
Less(yi_pred, yj_pred) == yi_pred < yj_pred

\* A comparison that reads the event's ground truth.
ConcordantWithTruth(e, yj_pred) == Less(e.yi_pred + e.yi_true, yj_pred)

\* float(yi_pred < yj_pred) for the event e of the outer loop
Concordant(e, yj_pred) == Less(e.yi_pred, yj_pred)

\* np.sum([[float(yi_pred < yj_pred), 1.] for yj_pred in partners], axis=0):
\* the array [numerator, denominator] when the list has rows, and the
\* scalar 0.0 when it is empty (np.sum of an array of shape (0,)).
InnerSum(e, partners) ==
    IF partners = <<>> THEN [shape |-> "scalar", n |-> 0, d |-> 0]
    ELSE [shape |-> "pair",
          n |-> CountTrue([k \in 1..Len(partners) |-> Concordant(e, partners[k])]),
          d |-> Len(partners)]

\* The outer np.sum(rows, axis=0).  Rows of one shape make a regular array:
\* pairs sum to a pair, scalars (or nothing) sum to a scalar.  A list that
\* mixes pairs and scalars is inhomogeneous: np.array makes an object array
\* of it before NumPy 1.24, whose sum broadcasts the scalars 0.0 into the
\* pairs, and raises ValueError from NumPy 1.24 on.
OuterSum(rows, ragged) ==
    LET pairs == SelectSeq(rows, LAMBDA r : r.shape = "pair")
        total == [shape |-> "pair",
                  n |-> SumSeq([k \in 1..Len(pairs) |-> pairs[k].n]),
                  d |-> SumSeq([k \in 1..Len(pairs) |-> pairs[k].d])]
    IN  IF pairs = <<>> THEN [shape |-> "scalar", n |-> 0, d |-> 0]
        ELSE IF Len(pairs) = Len(rows) THEN total
        ELSE IF ragged = "object_array" THEN total
        ELSE [shape |-> "ValueError", n |-> 0, d |-> 0]

\* v > vi
LaterMask(v, vi) == [j \in 1..Len(v) |-> v[j] > vi]

c_index_ours(p, t, flags, times, ragged) ==
    LET d == EventMask(flags)
        v == [i \in 1..Len(times) |-> AsFloat32(times[i])]
        events == Zip3(BoolIndex(v, d), BoolIndex(p, d), BoolIndex(t, d))
        rows == [k \in 1..Len(events) |->
                   InnerSum(events[k], BoolIndex(p, LaterMask(v, events[k].vi)))]
        numerator_denominator == OuterSum(rows, ragged)
    IN  IF numerator_denominator.shape = "ValueError" THEN ValueError
        ELSE IF numerator_denominator.shape = "scalar" THEN IndexError
        ELSE FDiv(Val(numerator_denominator.n, 1), Val(numerator_denominator.d, 1))

(***************************************************************************)
(* The callers' arguments and the calls.                                   *)
(***************************************************************************)
\* np.array of a ragged list: an object array before NumPy 1.24, a
\* ValueError from 1.24 on.
NumpyBuilds == {"object_array", "ValueError"}

\* Values of the arguments, in halves.
RegressionVals == {0, 1, 3}
ClassPredVals == {1, 2, 3, 16}
ClassTrueVals == {1, 2, 4, 16}
SurvivalPredVals == {0, 1, 3}
SurvivalTrueVals == {0, 2}
FlagVals == {0, 1}
RankPredVals == {1, 2}
\* 2^24 and 2^24 + 1 halves are one float32 (8388608.0).
TimeVals == {2, Pow2(Float32Bits), Pow2(Float32Bits) + 1}

Vectors(S, n) == [1..n -> S]

NoneCalled(metrics) == [m \in metrics |-> NotCalled]

inputs == <<y_pred, y_true, censor_flag, survival_time, numpy_ragged>>

\* rmse and nmse take no keyword data.
InitRegression ==
    \E k \in 0..MaxLen :
      LET n == MaxLen - k IN
        /\ y_pred \in Vectors(RegressionVals, n)
        /\ y_true \in Vectors(RegressionVals, n)
        /\ censor_flag = <<>>
        /\ survival_time = <<>>
        /\ numpy_ragged \in NumpyBuilds
        /\ result = NoneCalled({"rmse", "nmse"})

InitClassification ==
    \E k \in 0..MaxLen :
      LET n == MaxLen - k IN
        /\ y_pred \in Vectors(ClassPredVals, n)
        /\ y_true \in Vectors(ClassTrueVals, n)
        /\ censor_flag = <<>>
        /\ survival_time = <<>>
        /\ numpy_ragged \in NumpyBuilds
        /\ result = NoneCalled({"accuracy", "accuracy_per_class"})

InitSurvival ==
    \E k \in 0..MaxLen :
      LET n == MaxLen - k IN
        /\ y_pred \in Vectors(SurvivalPredVals, n)
        /\ y_true \in Vectors(SurvivalTrueVals, n)
        /\ censor_flag \in Vectors(FlagVals, n)
        /\ survival_time = <<>>
        /\ numpy_ragged \in NumpyBuilds
        /\ result = NoneCalled({"rmse_survival", "mse_survival", "mae_survival"})

\* The ground truth of a survival model is the observed time; a caller may
\* also pass any other vector of that length (here the zero vector).
InitCIndex ==
    \E k \in 0..MaxLen :
      LET n == MaxLen - k IN
        /\ y_pred \in Vectors(RankPredVals, n)
        /\ survival_time \in Vectors(TimeVals, n)
        /\ y_true \in {survival_time, [i \in 1..n |-> 0]}
        /\ censor_flag \in Vectors(FlagVals, n)
        /\ numpy_ragged \in NumpyBuilds
        /\ result = NoneCalled({"c_index_ours"})

Call_rmse ==
    /\ result' = [result EXCEPT !["rmse"] = rmse(y_pred, y_true)]
    /\ UNCHANGED inputs

Call_nmse ==
    /\ result' = [result EXCEPT !["nmse"] = nmse(y_pred, y_true)]
    /\ UNCHANGED inputs

Call_accuracy ==
    /\ result' = [result EXCEPT !["accuracy"] = accuracy(y_pred, y_true)]
    /\ UNCHANGED inputs

Call_accuracy_per_class ==
    /\ result' = [result EXCEPT
                    !["accuracy_per_class"] = accuracy_per_class(y_pred, y_true)]
    /\ UNCHANGED inputs

\* The survival metrics read kwargs['censor_flag'].
Call_rmse_survival ==
    /\ result' = [result EXCEPT
                    !["rmse_survival"] = rmse_survival(y_pred, y_true, censor_flag)]
    /\ UNCHANGED inputs

Call_mse_survival ==
    /\ result' = [result EXCEPT
                    !["mse_survival"] = mse_survival(y_pred, y_true, censor_flag)]
    /\ UNCHANGED inputs

Call_mae_survival ==
    /\ result' = [result EXCEPT
                    !["mae_survival"] = mae_survival(y_pred, y_true, censor_flag)]
    /\ UNCHANGED inputs

\* c_index_ours reads kwargs['censor_flag'] and kwargs['survival_time'].
Call_c_index_ours ==
    /\ result' = [result EXCEPT
                    !["c_index_ours"] =
                        c_index_ours(y_pred, y_true, censor_flag, survival_time,
                                     numpy_ragged)]
    /\ UNCHANGED inputs

NextRegression == Call_rmse \/ Call_nmse

NextClassification == Call_accuracy \/ Call_accuracy_per_class

NextSurvival == Call_rmse_survival \/ Call_mse_survival \/ Call_mae_survival

NextCIndex == Call_c_index_ours

SpecRegression == InitRegression /\ [][NextRegression]_vars

SpecClassification == InitClassification /\ [][NextClassification]_vars

SpecSurvival == InitSurvival /\ [][NextSurvival]_vars

SpecCIndex == InitCIndex /\ [][NextCIndex]_vars

Called(metric) == result[metric] # NotCalled

(***************************************************************************)
(* Reference notions the properties are stated with.  They are written     *)
(* from the mathematics, not from the NumPy expressions above.             *)
(***************************************************************************)
Indices == 1..Len(y_pred)

\* The ordered pairs (i, j) the concordance index compares: i an event and
\* j observed strictly later.
ComparablePairs ==
    {ij \in Indices \X Indices :
        /\ censor_flag[ij[1]] = 1
        /\ survival_time[ij[2]] > survival_time[ij[1]]}

ConcordantPairs == {ij \in ComparablePairs : y_pred[ij[1]] < y_pred[ij[2]]}

\* The elements of s at the indices with censor_flag = 1, in their order.
RECURSIVE UncensoredFrom(_, _)
UncensoredFrom(s, i) ==
    IF i > Len(s) THEN <<>>
    ELSE (IF censor_flag[i] = 1 THEN <<s[i]>> ELSE <<>>) \o UncensoredFrom(s, i + 1)

Uncensored(s) == UncensoredFrom(s, 1)

\* Plain error formulas on vectors a, b in halves.
PlainMse(a, b) ==
    IF Len(a) = 0 THEN NaN
    ELSE Val(SumSeq([i \in 1..Len(a) |-> (a[i] - b[i]) * (a[i] - b[i])]), 4 * Len(a))

PlainRmse(a, b) ==
    IF Len(a) = 0 THEN NaN
    ELSE LET m == PlainMse(a, b) IN Outcome("sqrt", m.num, m.den, <<>>)

PlainMae(a, b) ==
    IF Len(a) = 0 THEN NaN
    ELSE Val(SumSeq([i \in 1..Len(a) |->
                       IF a[i] >= b[i] THEN a[i] - b[i] ELSE b[i] - a[i]]),
             2 * Len(a))

\* Population variance E[t^2] - E[t]^2 of a vector in halves.
PopulationVariance(t) ==
    IF Len(t) = 0 THEN NaN
    ELSE Val(Len(t) * SumSeq([i \in 1..Len(t) |-> t[i] * t[i]])
               - SumSeq(t) * SumSeq(t),
             4 * Len(t) * Len(t))

\* The product of two floats; inf * 0 and anything with nan is nan.
Times(a, b) ==
    IF a.kind = "nan" \/ b.kind = "nan" THEN NaN
    ELSE IF a.kind = "inf" THEN (IF b.kind = "value" /\ b.num = 0 THEN NaN ELSE Inf)
    ELSE IF b.kind = "inf" THEN (IF a.num = 0 THEN NaN ELSE Inf)
    ELSE Val(a.num * b.num, a.den * b.den)

SqrtOf(a) == IF a.kind = "value" THEN Outcome("sqrt", a.num, a.den, <<>>) ELSE a

\* Equality of floats: nan equals nothing.
FloatEq(a, b) == a.kind # "nan" /\ b.kind # "nan" /\ a = b

\* The half h rounds to the integer class c (in halves): c is an integer
\* no further than 1/2 from h, the even one when two are.
RoundsTo(h, c) ==
    /\ c % 2 = 0
    /\ \/ h = c
       \/ Abs(h - c) = 1 /\ (c \div 2) % 2 = 0

IsInteger(h) == h % 2 = 0

\* The strictly increasing maps of the prediction values into 0 .. 2.0.
Increasing ==
    {f \in [RankPredVals -> 0..4] :
        \A a, b \in RankPredVals : a < b => f[a] < f[b]}

(***************************************************************************)
(* C1-C3, C8, C10: c_index_ours.                                           *)
(***************************************************************************)
\* C1: with at least one comparable pair, c_index_ours returns N/D, D the
\* number of pairs (i, j) with censor_flag[i] = 1 and survival_time[j] >
\* survival_time[i], N the number of those with y_pred[i] < y_pred[j].
C1_ReturnsConcordantFraction ==
    (Called("c_index_ours") /\ ComparablePairs # {})
        => result["c_index_ours"]
             = Val(Cardinality(ConcordantPairs), Cardinality(ComparablePairs))

\* C2: the outcome of c_index_ours is the same on f(y_pred) as on y_pred,
\* for every strictly increasing f, the other arguments held fixed.
C2_InvariantUnderIncreasingTransform ==
    Called("c_index_ours")
        => \A f \in Increasing :
              c_index_ours([i \in Indices |-> f[y_pred[i]]], y_true, censor_flag,
                           survival_time, numpy_ragged)
                = result["c_index_ours"]

\* A call that returned a fraction strictly between 0 and 1 on predictions
\* some increasing map moves apart.
C2_Witness ==
    /\ Called("c_index_ours")
    /\ result["c_index_ours"] = Val(1, 2)
    /\ \E i, j \in Indices : y_pred[i] + 1 = y_pred[j]

\* Perfect ranking: the predictions order the samples as the survival times do.
PerfectlyRanked ==
    \A i, j \in Indices :
        (y_pred[i] < y_pred[j]) <=> (survival_time[i] < survival_time[j])

\* C3: when every censor flag is 1 and the predictions are ordered as the
\* survival times are, c_index_ours returns exactly 1.0.  Stated for the
\* inputs on which the index is defined (some pair is comparable), so that
\* what fails it is not the 0/0 of C8.
C3_PerfectRankingGivesOne ==
    (/\ Called("c_index_ours")
     /\ \A i \in Indices : censor_flag[i] = 1
     /\ PerfectlyRanked
     /\ ComparablePairs # {})
        => result["c_index_ours"] = Val(1, 1)

ZeroDivisionError == Outcome("ZeroDivisionError", 0, 0, <<>>)

\* C8: without a comparable pair the outcome of c_index_ours is a division
\* by zero (0/0: nan from NumPy floats, ZeroDivisionError from Python
\* floats) and no other fault.
C8_NoComparablePairDividesByZero ==
    (Called("c_index_ours") /\ ComparablePairs = {})
        => result["c_index_ours"] \in {NaN, Inf, ZeroDivisionError}

\* C10: c_index_ours returns the same outcome for every ground-truth vector
\* of the same length.
C10_IndependentOfGroundTruth ==
    Called("c_index_ours")
        => \A other \in Vectors(FlagVals, Len(y_true)) \cup {survival_time, y_pred} :
              c_index_ours(y_pred, other, censor_flag, survival_time, numpy_ragged)
                = result["c_index_ours"]

\* A call that returned a fraction on a ground truth that is not constant.
C10_Witness ==
    /\ Called("c_index_ours")
    /\ result["c_index_ours"].kind = "value"
    /\ result["c_index_ours"].num > 0
    /\ \E i, j \in Indices : y_true[i] # y_true[j]

(***************************************************************************)
(* C4: the survival error metrics.                                         *)
(***************************************************************************)
\* y_pred and y_true with other values at one censored index.  Every
\* vector is an argument of some state, so the rewriting of several indices
\* is a chain of these.
CensoredRewritten ==
    {<<[y_pred EXCEPT ![i] = a], [y_true EXCEPT ![i] = b]>> :
        <<i, a, b>> \in {i \in Indices : censor_flag[i] # 1}
                          \X SurvivalPredVals \X SurvivalTrueVals}

\* C4: rmse_survival, mse_survival and mae_survival return what the plain
\* root mean squared, mean squared and mean absolute error return on the
\* sub-vectors of the indices with censor_flag = 1, and the values at the
\* other indices have no effect.
C4_SurvivalMetricsUseUncensoredOnly ==
    /\ Called("rmse_survival") =>
          /\ result["rmse_survival"] = PlainRmse(Uncensored(y_pred), Uncensored(y_true))
          /\ \A pt \in CensoredRewritten :
                rmse_survival(pt[1], pt[2], censor_flag) = result["rmse_survival"]
    /\ Called("mse_survival") =>
          /\ result["mse_survival"] = PlainMse(Uncensored(y_pred), Uncensored(y_true))
          /\ \A pt \in CensoredRewritten :
                mse_survival(pt[1], pt[2], censor_flag) = result["mse_survival"]
    /\ Called("mae_survival") =>
          /\ result["mae_survival"] = PlainMae(Uncensored(y_pred), Uncensored(y_true))
          /\ \A pt \in CensoredRewritten :
                mae_survival(pt[1], pt[2], censor_flag) = result["mae_survival"]

\* All three were called on data with an event and with a censored sample
\* whose prediction is wrong.
C4_Witness ==
    /\ Called("rmse_survival") /\ Called("mse_survival") /\ Called("mae_survival")
    /\ \E i, j \in Indices :
          /\ censor_flag[i] = 1 /\ y_pred[i] # y_true[i]
          /\ censor_flag[j] = 0 /\ y_pred[j] # y_true[j]

(***************************************************************************)
(* C5, C6, C9: accuracy and accuracy_per_class.                            *)
(***************************************************************************)
Classes == {y_true[i] : i \in Indices}

Entries == result["accuracy_per_class"].items

\* C5: the entries of accuracy_per_class are in ascending order of class
\* value.
C5_ClassesAscending ==
    Called("accuracy_per_class")
        => \A k \in 1..(Len(Entries) - 1) : Entries[k].class < Entries[k + 1].class

\* C6: accuracy_per_class returns exactly one entry (c, acc) per distinct
\* value c of y_true and no other, acc being the fraction of the samples
\* with y_true = c whose prediction rounds to c.
C6_OneEntryPerClass ==
    Called("accuracy_per_class") =>
        /\ Len(Entries) = Cardinality(Classes)
        /\ {Entries[k].class : k \in 1..Len(Entries)} = Classes
        /\ \A k \in 1..Len(Entries) :
              LET c == Entries[k].class
                  members == {i \in Indices : y_true[i] = c}
                  hits == {i \in members : RoundsTo(y_pred[i], c)}
              IN  Entries[k].acc = Val(Cardinality(hits), Cardinality(members))

\* Two classes, one of them hit by a prediction that is a tie (x.5) and one
\* with an accuracy strictly between 0 and 1.
C6_Witness ==
    /\ Called("accuracy_per_class")
    /\ Len(Entries) = 2
    /\ \E k \in 1..Len(Entries) : Entries[k].acc = Val(1, 2)
    /\ \E i \in Indices : ~IsInteger(y_pred[i]) /\ RoundsTo(y_pred[i], y_true[i])

InUnitInterval(a) == a.kind = "value" /\ 0 <= a.num /\ a.num <= a.den

\* C9: accuracy returns 1 whenever y_pred equals y_true element for
\* element, and its result lies in [0, 1] for all equal-length arguments.
C9_AccuracyInUnitIntervalAndOneOnEqual ==
    Called("accuracy") =>
        /\ InUnitInterval(result["accuracy"])
        /\ y_pred = y_true => result["accuracy"] = Val(1, 1)

\* C9 as amended: on non-empty arguments the result lies in [0, 1], and it
\* is 1 when y_pred equals y_true element for element and every value of
\* y_true is an integer.
C9_Amended ==
    (Called("accuracy") /\ Len(y_pred) > 0) =>
        /\ InUnitInterval(result["accuracy"])
        /\ (y_pred = y_true /\ \A i \in Indices : IsInteger(y_true[i]))
              => result["accuracy"] = Val(1, 1)

\* accuracy was called with predictions equal to an integer ground truth of
\* more than one class.
C9_Witness ==
    /\ Called("accuracy")
    /\ y_pred = y_true
    /\ \A i \in Indices : IsInteger(y_true[i])
    /\ Cardinality(Classes) > 1

(***************************************************************************)
(* C7: rmse and nmse.                                                      *)
(***************************************************************************)
\* C7: rmse(pred, true) = sqrt(nmse(pred, true) * variance(true)) for all
\* equal-length vectors, a constant y_true included.
C7_RmseFromNmse ==
    (Called("rmse") /\ Called("nmse"))
        => FloatEq(result["rmse"],
                   SqrtOf(Times(result["nmse"], PopulationVariance(y_true))))

NotConstant(t) == \E i, j \in 1..Len(t) : t[i] # t[j]

\* C7 as amended: the identity holds whenever y_true is not constant
\* (variance(true) > 0).
C7_Amended ==
    (Called("rmse") /\ Called("nmse") /\ NotConstant(y_true))
        => FloatEq(result["rmse"],
                   SqrtOf(Times(result["nmse"], PopulationVariance(y_true))))

\* Both were called on a non-constant ground truth with a non-zero error.
C7_Witness ==
    /\ Called("rmse") /\ Called("nmse")
    /\ NotConstant(y_true)
    /\ result["rmse"].kind = "sqrt" /\ result["rmse"].num > 0

====
